---------------------------- MODULE Spec2Model ----------------------------
(***************************************************************************)
(* OBS Lite sensor readers: tools/read_ble.py (radio channel, one protobuf *)
(* Event per notification) and tools/read_esp.py (serial channel, COBS     *)
(* frames delimited by a zero byte).                                       *)
(*                                                                         *)
(* Bytes are integers 0..255; a bytes object is a sequence of bytes.       *)
(* Python positions are 0-based: data[pos] is written data[pos + 1].       *)
(***************************************************************************)
EXTENDS Integers, Sequences, FiniteSets, TLC

VARIABLES
    \* read_ble.py: module-level statistics and the notification at hand
    start_time, count, dist_zero_no_field, dist_zero_explicit, dist_ok,
    truncated, sid1_zero, sid1_ok, sid2_zero, sid2_ok,
    data, event,
    \* read_esp.py: locals of main(), and the history of what it has done
    chunk, buf, esp_count, esp_dist_zero, esp_dist_ok,
    budget, stream, frames, events, cobs_errors,
    \* one call of a decoding function: where it stands, how its input was
    \* made, the input bytes, the result
    pc, origin, inp, out

bleVars == <<start_time, count, dist_zero_no_field, dist_zero_explicit, dist_ok,
             truncated, sid1_zero, sid1_ok, sid2_zero, sid2_ok, data, event>>
espVars == <<chunk, buf, esp_count, esp_dist_zero, esp_dist_ok,
             budget, stream, frames, events, cobs_errors>>
fnVars  == <<pc, origin, inp, out>>
vars    == <<bleVars, espVars, fnVars>>

---------------------------------------------------------------------------
(* Bounds of the model *)

\* longest frame drawn byte by byte from Alphabet
MaxRawLen == 3
\* most top-level fields of a frame built field by field
MaxFields == 2
\* most fields of a DistanceMeasurement submessage built field by field
MaxDMFields == 2
\* most notifications of one run of the radio reader
MaxNotifications == 2
\* most bytes the serial port delivers in one run, and in one read
MaxStreamLen == 4
MaxChunkLen == 3
\* longest payload given to the COBS encoder
MaxPayloadLen == 4
\* every integer up to this one is encoded as a varint and decoded back
MaxValue == 300
\* longest run of bytes with the continuation bit set given to decode_varint
MaxRun == 11

---------------------------------------------------------------------------
(* Python values *)

Min(a, b) == IF a <= b THEN a ELSE b

\* the least and the greatest member of a non-empty set of integers
MinOf(S) == CHOOSE i \in S : \A j \in S : i <= j
MaxOf(S) == CHOOSE i \in S : \A j \in S : i >= j

\* data[a:b] for 0 <= a <= b: a slice is cut at the end of the sequence
Slice(s, a, b) == SubSeq(s, a + 1, Min(b, Len(s)))

\* bytes.hex(): two hexadecimal digits per byte, high digit first
hex(s) == [i \in 1..(2 * Len(s)) |->
             IF i % 2 = 1 THEN s[(i + 1) \div 2] \div 16 ELSE s[i \div 2] % 16]

\* struct.unpack('<f', b): the IEEE-754 single whose bits are the four bytes,
\* least significant first; kept as its sign bit and its 31 other bits
unpack_f(b) == [sign |-> b[4] \div 128,
                mag  |-> (b[4] % 128) * 16777216 + b[3] * 65536 + b[2] * 256 + b[1]]

\* the float literal 0.0
FloatZero == [sign |-> 0, mag |-> 0]

\* x == 0.0 for a float x: true of +0.0 and -0.0, false of everything else
\* (NaN included)
IsZero(x) == x.mag = 0

\* Python's None
None == [kind |-> "None"]

---------------------------------------------------------------------------
(* read_ble.py: decode_varint *)

\* a slip: the position returned is that of the last byte, not the one after
RECURSIVE varint_loop_stale_pos(_, _, _, _)
varint_loop_stale_pos(d, pos, result, shift) ==
    IF pos < Len(d)
    THEN LET b == d[pos + 1]
             r == IF b % 128 = 0 THEN result ELSE result + (b % 128) * (2 ^ shift)
         IN  IF b < 128
             THEN <<r, pos>>
             ELSE varint_loop_stale_pos(d, pos + 1, r, shift + 7)
    ELSE <<result, pos>>

\* result |= (b & 0x7F) << shift: result is below 2^shift, so the OR adds
RECURSIVE varint_loop(_, _, _, _)
varint_loop(d, pos, result, shift) ==
    IF pos < Len(d)
    THEN LET b == d[pos + 1]
             r == IF b % 128 = 0 THEN result ELSE result + (b % 128) * (2 ^ shift)
         IN  IF b < 128
             THEN <<r, pos + 1>>
             ELSE varint_loop(d, pos + 1, r, shift + 7)
    ELSE <<result, pos>>

decode_varint(d, pos) == varint_loop(d, pos, 0, 0)

\* the same loop, keeping each term (b & 0x7F) << shift as the pair of its
\* group and its shift instead of their sum: a Python integer has no width,
\* the result of a long run is larger than any integer of the model
RECURSIVE varint_trace(_, _, _)
varint_trace(d, pos, shift) ==
    IF pos < Len(d)
    THEN LET b == d[pos + 1]
         IN  <<[group |-> b % 128, shift |-> shift]>>
             \o (IF b < 128 THEN <<>> ELSE varint_trace(d, pos + 1, shift + 7))
    ELSE <<>>

\* int.bit_length() of a 7-bit group
BitLength(g) == IF g = 0 THEN 0 ELSE CHOOSE n \in 1..7 : 2 ^ (n - 1) <= g /\ g < 2 ^ n

\* int.bit_length() of the result: the terms do not overlap, the highest one
\* that is not zero decides
ResultBits(trace) ==
    LET set == {i \in 1..Len(trace) : trace[i].group /= 0}
    IN  IF set = {} THEN 0
        ELSE trace[MaxOf(set)].shift + BitLength(trace[MaxOf(set)].group)

---------------------------------------------------------------------------
(* read_ble.py: parse_distance_measurement *)

\* the locals before the loop
dm_init == [pos |-> 0, source_id |-> 0, distance |-> FloatZero,
            has_distance |-> FALSE, brk |-> FALSE]

\* a slip: field 2 taken as the distance whatever its wire type
dm_step_any_wire_type(d, st) ==
    LET t         == decode_varint(d, st.pos)
        tag       == t[1]
        pos       == t[2]
        field_num == tag \div 8
        wire_type == tag % 8
    IN  IF field_num = 1 /\ wire_type = 0
        THEN LET v == decode_varint(d, pos)
             IN  [st EXCEPT !.source_id = v[1], !.pos = v[2]]
        ELSE IF field_num = 2
        THEN IF pos + 4 <= Len(d)
             THEN [st EXCEPT !.distance = unpack_f(Slice(d, pos, pos + 4)),
                             !.has_distance = TRUE,
                             !.pos = pos + 4]
             ELSE [st EXCEPT !.pos = pos]
        ELSE IF wire_type = 0
        THEN [st EXCEPT !.pos = decode_varint(d, pos)[2]]
        ELSE IF wire_type = 1
        THEN [st EXCEPT !.pos = pos + 8]
        ELSE IF wire_type = 2
        THEN LET l == decode_varint(d, pos)
             IN  [st EXCEPT !.pos = l[2] + l[1]]
        ELSE IF wire_type = 5
        THEN [st EXCEPT !.pos = pos + 4]
        ELSE [st EXCEPT !.pos = pos, !.brk = TRUE]

\* one pass of the loop body, entered with st.pos < len(data)
dm_step(d, st) ==
    LET t         == decode_varint(d, st.pos)
        tag       == t[1]
        pos       == t[2]
        field_num == tag \div 8
        wire_type == tag % 8
    IN  IF field_num = 1 /\ wire_type = 0
        THEN LET v == decode_varint(d, pos)
             IN  [st EXCEPT !.source_id = v[1], !.pos = v[2]]
        ELSE IF field_num = 2 /\ wire_type = 5
        THEN IF pos + 4 <= Len(d)
             THEN [st EXCEPT !.distance = unpack_f(Slice(d, pos, pos + 4)),
                             !.has_distance = TRUE,
                             !.pos = pos + 4]
             ELSE [st EXCEPT !.pos = pos]
        ELSE IF wire_type = 0
        THEN [st EXCEPT !.pos = decode_varint(d, pos)[2]]
        ELSE IF wire_type = 1
        THEN [st EXCEPT !.pos = pos + 8]
        ELSE IF wire_type = 2
        THEN LET l == decode_varint(d, pos)
             IN  [st EXCEPT !.pos = l[2] + l[1]]
        ELSE IF wire_type = 5
        THEN [st EXCEPT !.pos = pos + 4]
        ELSE [st EXCEPT !.pos = pos, !.brk = TRUE]

RECURSIVE dm_loop(_, _)
dm_loop(d, st) ==
    IF st.pos < Len(d) /\ ~st.brk THEN dm_loop(d, dm_step(d, st)) ELSE st

\* the locals when the function returns
dm_run(d) == dm_loop(d, dm_init)

\* (source_id, distance, has_distance)
parse_distance_measurement(d) ==
    LET st == dm_run(d) IN <<st.source_id, st.distance, st.has_distance>>

---------------------------------------------------------------------------
(* read_ble.py: parse_event *)

\* event_type values: None, a fixed name, or f"field_{field_num}"
NoType       == [kind |-> "None", num |-> 0]
Named(name)  == [kind |-> name, num |-> 0]
FieldType(n) == [kind |-> "field", num |-> n]

\* a slip: the event type starts as an unknown field instead of None
pe_init_unknown == [pos |-> 0, event_type |-> FieldType(0), details |-> None,
                    brk |-> FALSE, returned |-> FALSE]

\* the locals before the loop
pe_init == [pos |-> 0, event_type |-> NoType, details |-> None,
            brk |-> FALSE, returned |-> FALSE]

\* a slip: a recognised field sets the event only when none is set yet
pe_dispatch_first_wins(st, field_num, field_data) ==
    IF st.event_type /= NoType
    THEN st
    ELSE IF field_num = 10
    THEN LET r == parse_distance_measurement(field_data)
         IN  [st EXCEPT !.event_type = Named("distance"),
                        !.details = [kind |-> "distance",
                                     source_id |-> r[1],
                                     distance |-> r[2],
                                     has_distance |-> r[3],
                                     raw_hex |-> hex(field_data),
                                     dm_bytes |-> Len(field_data)]]
    ELSE IF field_num = 12
    THEN [st EXCEPT !.event_type = Named("geolocation")]
    ELSE IF field_num = 13
    THEN [st EXCEPT !.event_type = Named("userInput")]
    ELSE IF field_num = 14
    THEN [st EXCEPT !.event_type = Named("textMessage"),
                    !.details = [kind |-> "text", raw |-> field_data]]
    ELSE IF field_num = 6
    THEN st
    ELSE [st EXCEPT !.event_type = FieldType(field_num)]

\* a slip: an unknown field sets the event type whatever it was
pe_dispatch_unknown_overwrites(st, field_num, field_data) ==
    IF field_num = 10
    THEN LET r == parse_distance_measurement(field_data)
         IN  [st EXCEPT !.event_type = Named("distance"),
                        !.details = [kind |-> "distance",
                                     source_id |-> r[1],
                                     distance |-> r[2],
                                     has_distance |-> r[3],
                                     raw_hex |-> hex(field_data),
                                     dm_bytes |-> Len(field_data)]]
    ELSE IF field_num = 12
    THEN [st EXCEPT !.event_type = Named("geolocation")]
    ELSE IF field_num = 13
    THEN [st EXCEPT !.event_type = Named("userInput")]
    ELSE IF field_num = 14
    THEN [st EXCEPT !.event_type = Named("textMessage"),
                    !.details = [kind |-> "text", raw |-> field_data]]
    ELSE IF field_num = 6
    THEN st
    ELSE [st EXCEPT !.event_type = FieldType(field_num)]

\* a slip: the distance record is made only when the distance field is there
pe_dispatch_details_when_present(st, field_num, field_data) ==
    IF field_num = 10
    THEN LET r == parse_distance_measurement(field_data)
         IN  IF r[3]
             THEN [st EXCEPT !.event_type = Named("distance"),
                             !.details = [kind |-> "distance",
                                          source_id |-> r[1],
                                          distance |-> r[2],
                                          has_distance |-> r[3],
                                          raw_hex |-> hex(field_data),
                                          dm_bytes |-> Len(field_data)]]
             ELSE [st EXCEPT !.event_type = Named("distance")]
    ELSE IF field_num = 12
    THEN [st EXCEPT !.event_type = Named("geolocation")]
    ELSE IF field_num = 13
    THEN [st EXCEPT !.event_type = Named("userInput")]
    ELSE IF field_num = 14
    THEN [st EXCEPT !.event_type = Named("textMessage"),
                    !.details = [kind |-> "text", raw |-> field_data]]
    ELSE IF field_num = 6
    THEN st
    ELSE IF st.event_type = NoType
    THEN [st EXCEPT !.event_type = FieldType(field_num)]
    ELSE st

\* the dispatch on field_num of a length-delimited field (lines 73-88)
pe_dispatch(st, field_num, field_data) ==
    IF field_num = 10
    THEN LET r == parse_distance_measurement(field_data)
         IN  [st EXCEPT !.event_type = Named("distance"),
                        !.details = [kind |-> "distance",
                                     source_id |-> r[1],
                                     distance |-> r[2],
                                     has_distance |-> r[3],
                                     raw_hex |-> hex(field_data),
                                     dm_bytes |-> Len(field_data)]]
    ELSE IF field_num = 12
    THEN [st EXCEPT !.event_type = Named("geolocation")]
    ELSE IF field_num = 13
    THEN [st EXCEPT !.event_type = Named("userInput")]
    ELSE IF field_num = 14
    THEN [st EXCEPT !.event_type = Named("textMessage"),
                    !.details = [kind |-> "text", raw |-> field_data]]
    ELSE IF field_num = 6
    THEN st
    ELSE IF st.event_type = NoType
    THEN [st EXCEPT !.event_type = FieldType(field_num)]
    ELSE st

\* a slip: the bytes available counted from the start of the frame
truncated_details_whole_frame(d, pos, field_num, length) ==
    [kind |-> "truncated", field |-> field_num, expected |-> length,
     available |-> Len(d), raw_hex |-> hex(d)]

\* the details returned with "TRUNCATED" (line 70), pos after the length varint
truncated_details(d, pos, field_num, length) ==
    [kind |-> "truncated", field |-> field_num, expected |-> length,
     available |-> Len(d) - pos, raw_hex |-> hex(d)]

\* a slip: a tag of an unsupported wire type is passed over and the loop
\* goes on with the next byte
pe_step_unsupported_continues(d, st) ==
    LET t         == decode_varint(d, st.pos)
        tag       == t[1]
        pos       == t[2]
        field_num == tag \div 8
        wire_type == tag % 8
    IN  IF wire_type = 2
        THEN LET l      == decode_varint(d, pos)
                 length == l[1]
                 p      == l[2]
             IN  IF p + length > Len(d)
                 THEN [st EXCEPT !.pos = p,
                                 !.event_type = Named("TRUNCATED"),
                                 !.details = truncated_details(d, p, field_num, length),
                                 !.returned = TRUE]
                 ELSE pe_dispatch([st EXCEPT !.pos = p + length],
                                  field_num, Slice(d, p, p + length))
        ELSE IF wire_type = 0
        THEN [st EXCEPT !.pos = decode_varint(d, pos)[2]]
        ELSE IF wire_type = 1
        THEN [st EXCEPT !.pos = pos + 8]
        ELSE IF wire_type = 5
        THEN [st EXCEPT !.pos = pos + 4]
        ELSE [st EXCEPT !.pos = pos]

\* one pass of the loop body, entered with st.pos < len(data)
pe_step(d, st) ==
    LET t         == decode_varint(d, st.pos)
        tag       == t[1]
        pos       == t[2]
        field_num == tag \div 8
        wire_type == tag % 8
    IN  IF wire_type = 2
        THEN LET l      == decode_varint(d, pos)
                 length == l[1]
                 p      == l[2]
             IN  IF p + length > Len(d)
                 THEN [st EXCEPT !.pos = p,
                                 !.event_type = Named("TRUNCATED"),
                                 !.details = truncated_details(d, p, field_num, length),
                                 !.returned = TRUE]
                 ELSE pe_dispatch([st EXCEPT !.pos = p + length],
                                  field_num, Slice(d, p, p + length))
        ELSE IF wire_type = 0
        THEN [st EXCEPT !.pos = decode_varint(d, pos)[2]]
        ELSE IF wire_type = 1
        THEN [st EXCEPT !.pos = pos + 8]
        ELSE IF wire_type = 5
        THEN [st EXCEPT !.pos = pos + 4]
        ELSE [st EXCEPT !.pos = pos, !.brk = TRUE]

RECURSIVE pe_loop(_, _)
pe_loop(d, st) ==
    IF st.pos < Len(d) /\ ~st.brk /\ ~st.returned
    THEN pe_loop(d, pe_step(d, st))
    ELSE st

\* the locals when the function returns
pe_run(d) == pe_loop(d, pe_init)

\* (event_type, details)
parse_event(d) == LET st == pe_run(d) IN <<st.event_type, st.details>>

---------------------------------------------------------------------------
(* read_esp.py: cobs_decode *)

\* the largest code byte: a run of 254 bytes with no zero after it
CobsMaxCode == 255

\* a bytes result, as opposed to None
Bytes(s) == [kind |-> "bytes", val |-> s]

cobs_init == [i |-> 0, output |-> <<>>, brk |-> FALSE, none |-> FALSE]

\* one pass of the outer loop, entered with st.i < len(data); the inner loop
\* copies code - 1 bytes and returns None when the data ends before that
cobs_step(d, st) ==
    LET code == d[st.i + 1]
        i    == st.i + 1
        j    == i + (code - 1)
    IN  IF code = 0
        THEN [st EXCEPT !.brk = TRUE]
        ELSE IF j > Len(d)
        THEN [st EXCEPT !.i = Len(d),
                        !.output = st.output \o Slice(d, i, Len(d)),
                        !.none = TRUE]
        ELSE LET copied == st.output \o Slice(d, i, j)
             IN  [st EXCEPT !.i = j,
                            !.output = IF code < CobsMaxCode /\ j < Len(d)
                                       THEN Append(copied, 0)
                                       ELSE copied]

RECURSIVE cobs_loop(_, _)
cobs_loop(d, st) ==
    IF st.i < Len(d) /\ ~st.brk /\ ~st.none
    THEN cobs_loop(d, cobs_step(d, st))
    ELSE st

\* the locals when the loop is left (by exhaustion, break or return None)
cobs_run(d) == cobs_loop(d, cobs_init)

\* the final strip of one trailing zero, and the conversion to bytes
cobs_finish(output) ==
    IF output /= <<>> /\ output[Len(output)] = 0
    THEN SubSeq(output, 1, Len(output) - 1)
    ELSE output

cobs_decode(d) ==
    LET st == cobs_run(d)
    IN  IF st.none THEN None ELSE Bytes(cobs_finish(st.output))

---------------------------------------------------------------------------
(* read_esp.py: decode_varint, parse_distance_measurement, parse_event *)

RECURSIVE esp_varint_loop(_, _, _, _)
esp_varint_loop(d, pos, result, shift) ==
    IF pos < Len(d)
    THEN LET b == d[pos + 1]
             r == IF b % 128 = 0 THEN result ELSE result + (b % 128) * (2 ^ shift)
         IN  IF b < 128
             THEN <<r, pos + 1>>
             ELSE esp_varint_loop(d, pos + 1, r, shift + 7)
    ELSE <<result, pos>>

esp_decode_varint(d, pos) == esp_varint_loop(d, pos, 0, 0)

esp_dm_step(d, st) ==
    LET t         == esp_decode_varint(d, st.pos)
        tag       == t[1]
        pos       == t[2]
        field_num == tag \div 8
        wire_type == tag % 8
    IN  IF field_num = 1 /\ wire_type = 0
        THEN LET v == esp_decode_varint(d, pos)
             IN  [st EXCEPT !.source_id = v[1], !.pos = v[2]]
        ELSE IF field_num = 2 /\ wire_type = 5
        THEN IF pos + 4 <= Len(d)
             THEN [st EXCEPT !.distance = unpack_f(Slice(d, pos, pos + 4)),
                             !.has_distance = TRUE,
                             !.pos = pos + 4]
             ELSE [st EXCEPT !.pos = pos]
        ELSE IF wire_type = 0
        THEN [st EXCEPT !.pos = esp_decode_varint(d, pos)[2]]
        ELSE IF wire_type = 1
        THEN [st EXCEPT !.pos = pos + 8]
        ELSE IF wire_type = 2
        THEN LET l == esp_decode_varint(d, pos)
             IN  [st EXCEPT !.pos = l[2] + l[1]]
        ELSE IF wire_type = 5
        THEN [st EXCEPT !.pos = pos + 4]
        ELSE [st EXCEPT !.pos = pos, !.brk = TRUE]

RECURSIVE esp_dm_loop(_, _)
esp_dm_loop(d, st) ==
    IF st.pos < Len(d) /\ ~st.brk THEN esp_dm_loop(d, esp_dm_step(d, st)) ELSE st

esp_dm_run(d) == esp_dm_loop(d, dm_init)

esp_parse_distance_measurement(d) ==
    LET st == esp_dm_run(d) IN <<st.source_id, st.distance, st.has_distance>>

\* the dispatch on field_num of a length-delimited field (lines 88-104)
esp_pe_dispatch(st, field_num, field_data) ==
    IF field_num = 10
    THEN LET r == esp_parse_distance_measurement(field_data)
         IN  [st EXCEPT !.event_type = Named("distance"),
                        !.details = [kind |-> "distance",
                                     source_id |-> r[1],
                                     distance |-> r[2],
                                     has_distance |-> r[3],
                                     raw_hex |-> hex(field_data)]]
    ELSE IF field_num = 12
    THEN [st EXCEPT !.event_type = Named("geolocation")]
    ELSE IF field_num = 13
    THEN [st EXCEPT !.event_type = Named("userInput")]
    ELSE IF field_num = 14
    THEN [st EXCEPT !.event_type = Named("textMessage"),
                    !.details = [kind |-> "text", raw |-> field_data]]
    ELSE IF field_num = 6
    THEN st
    ELSE IF st.event_type = NoType
    THEN [st EXCEPT !.event_type = FieldType(field_num)]
    ELSE st

\* one pass of the loop body: no check of the declared length against the
\* buffer, the slice is cut at the end of the data
esp_pe_step(d, st) ==
    LET t         == esp_decode_varint(d, st.pos)
        tag       == t[1]
        pos       == t[2]
        field_num == tag \div 8
        wire_type == tag % 8
    IN  IF wire_type = 2
        THEN LET l      == esp_decode_varint(d, pos)
                 length == l[1]
                 p      == l[2]
             IN  esp_pe_dispatch([st EXCEPT !.pos = p + length],
                                 field_num, Slice(d, p, p + length))
        ELSE IF wire_type = 0
        THEN [st EXCEPT !.pos = esp_decode_varint(d, pos)[2]]
        ELSE IF wire_type = 1
        THEN [st EXCEPT !.pos = pos + 8]
        ELSE IF wire_type = 5
        THEN [st EXCEPT !.pos = pos + 4]
        ELSE [st EXCEPT !.pos = pos, !.brk = TRUE]

RECURSIVE esp_pe_loop(_, _)
esp_pe_loop(d, st) ==
    IF st.pos < Len(d) /\ ~st.brk THEN esp_pe_loop(d, esp_pe_step(d, st)) ELSE st

esp_pe_run(d) == esp_pe_loop(d, pe_init)

esp_parse_event(d) == LET st == esp_pe_run(d) IN <<st.event_type, st.details>>

---------------------------------------------------------------------------
(* read_ble.py: handle_notification, the branch on a distance event *)

\* a slip: a zero distance counted as a missing field, present or not
classify_zero_collapsed(d) ==
    IF IsZero(d.distance) THEN "zero_no_field" ELSE "ok"

\* which of the three branches of lines 130-143 a distance record takes
classify(d) ==
    IF IsZero(d.distance) /\ ~d.has_distance THEN "zero_no_field"
    ELSE IF IsZero(d.distance) THEN "zero_explicit"
    ELSE "ok"

\* time.time(): some moment, never None
Time == [kind |-> "time"]

Bump(c, cond) == IF cond THEN c + 1 ELSE c

---------------------------------------------------------------------------
(* read_esp.py: main, the loop over the frames of the buffer *)

\* a slip: the delimiter left at the end of the frame
extract_frame_with_delimiter(b) ==
    LET idx == (CHOOSE i \in 1..Len(b) : b[i] = 0 /\ \A j \in 1..(i - 1) : b[j] /= 0) - 1
    IN  <<SubSeq(b, 1, idx + 1), SubSeq(b, idx + 2, Len(b))>>

\* a slip: the delimiter left at the head of the buffer (buf[idx:])
extract_frame_delimiter_kept_in_buf(b) ==
    LET idx == (CHOOSE i \in 1..Len(b) : b[i] = 0 /\ \A j \in 1..(i - 1) : b[j] /= 0) - 1
    IN  <<SubSeq(b, 1, idx), SubSeq(b, idx + 1, Len(b))>>

\* a slip: the buffer split at its last zero byte (rindex for index)
extract_frame_at_last_zero(b) ==
    LET idx == (CHOOSE i \in 1..Len(b) : b[i] = 0 /\ \A j \in (i + 1)..Len(b) : b[j] /= 0) - 1
    IN  <<SubSeq(b, 1, idx), SubSeq(b, idx + 2, Len(b))>>

\* lines 134-136, for a buffer that holds a zero byte: (frame, rest of buf)
extract_frame(b) ==
    LET idx == (CHOOSE i \in 1..Len(b) : b[i] = 0 /\ \A j \in 1..(i - 1) : b[j] /= 0) - 1
    IN  <<SubSeq(b, 1, idx), SubSeq(b, idx + 2, Len(b))>>

\* the branch on the event (lines 150-160): the two counters
esp_classify(st, ev) ==
    IF ev[1] = Named("distance")
    THEN IF IsZero(ev[2].distance)
         THEN [st EXCEPT !.dist_zero = @ + 1]
         ELSE [st EXCEPT !.dist_ok = @ + 1]
    ELSE st

\* a slip: no test for the empty frame
process_frame_no_empty_test(st, frame) ==
    LET decoded == cobs_decode(frame)
    IN  IF decoded = None
        THEN [st EXCEPT !.cobs_errors = @ + 1]
        ELSE LET ev == esp_parse_event(decoded.val)
             IN  esp_classify([st EXCEPT !.count = @ + 1,
                                         !.events = Append(@, ev)], ev)

\* a slip: the frame counted before it is decoded
process_frame_count_first(st, frame) ==
    IF frame = <<>>
    THEN st
    ELSE LET decoded == cobs_decode(frame)
             st1     == [st EXCEPT !.count = @ + 1]
         IN  IF decoded = None
             THEN [st1 EXCEPT !.cobs_errors = @ + 1]
             ELSE LET ev == esp_parse_event(decoded.val)
                  IN  esp_classify([st1 EXCEPT !.events = Append(@, ev)], ev)

\* lines 138-169: what is done with one extracted frame
process_frame(st, frame) ==
    IF frame = <<>>
    THEN st
    ELSE LET decoded == cobs_decode(frame)
         IN  IF decoded = None
             THEN [st EXCEPT !.cobs_errors = @ + 1]
             ELSE LET ev == esp_parse_event(decoded.val)
                  IN  esp_classify([st EXCEPT !.count = @ + 1,
                                              !.events = Append(@, ev)], ev)

\* one pass of `while b'\x00' in buf`
frame_step(st) ==
    LET x == extract_frame(st.buf)
    IN  process_frame([st EXCEPT !.buf = x[2], !.frames = Append(@, x[1])], x[1])

RECURSIVE frame_loop(_)
frame_loop(st) ==
    IF \E i \in 1..Len(st.buf) : st.buf[i] = 0 THEN frame_loop(frame_step(st)) ELSE st

---------------------------------------------------------------------------
(* The inputs: what the device and the link can deliver *)

\* all sequences over S of length at most n
SeqsUpTo(S, n) == UNION {[1..k -> S] : k \in 0..n}

\* every prefix of a sequence of S, the sequence included
Prefixes(S) == {SubSeq(f, 1, k) : <<f, k>> \in {<<g, j>> \in S \X (0..20) : j <= Len(g)}}

\* bytes a raw frame is drawn from: tags of every wire type, small lengths
\* and values, a continuation byte
\*   82, 98, 114: fields 10, 12, 14, length-delimited; 50: field 6; 58: field 7
\*   8: field 1, varint; 9: field 1, fixed64; 13: field 1, fixed32
\*   11: field 1, wire type 3 (unsupported); 128: a continuation byte
Alphabet == {0, 1, 2, 8, 9, 11, 13, 50, 58, 82, 98, 114, 128}

RawFrames == SeqsUpTo(Alphabet, MaxRawLen)

\* protobuf's base-128 encoding of an unsigned integer
RECURSIVE enc_varint(_)
enc_varint(v) ==
    IF v < 128 THEN <<v>> ELSE <<128 + (v % 128)>> \o enc_varint(v \div 128)

\* a field is [num, wt, int, val]: val is the payload as it is on the wire
\* (the varint of a varint field, the payload of a length-delimited field, the
\* 4 or 8 bytes of a fixed field, nothing after a tag of an unsupported wire
\* type) and int is the integer of a varint field
VarintField(n, v) == [num |-> n, wt |-> 0, int |-> v, val |-> enc_varint(v)]
Field(n, w, b)    == [num |-> n, wt |-> w, int |-> 0, val |-> b]

enc_head(f) ==
    enc_varint(f.num * 8 + f.wt) \o (IF f.wt = 2 THEN enc_varint(Len(f.val)) ELSE <<>>)

enc_field(f) == enc_head(f) \o f.val

RECURSIVE enc_fields(_)
enc_fields(fs) ==
    IF fs = <<>> THEN <<>> ELSE enc_field(Head(fs)) \o enc_fields(Tail(fs))

\* the fields of DistanceMeasurement submessages
S1   == VarintField(1, 1)
S2   == VarintField(1, 2)
S300 == VarintField(1, 300)
D325 == Field(2, 5, <<0, 0, 80, 64>>)
D0   == Field(2, 5, <<0, 0, 0, 0>>)
DNeg0 == Field(2, 5, <<0, 0, 0, 128>>)

DMFields == {S1, S2, S300, D325, D0, DNeg0,
             VarintField(3, 5), VarintField(2, 7), Field(1, 5, <<1, 0, 0, 0>>),
             Field(4, 1, <<1, 2, 3, 4, 5, 6, 7, 8>>), Field(5, 2, <<8, 1>>)}

\* the submessages carried by field 10 of the built frames
EventDMs == {<<>>, <<S1>>, <<S1, D325>>, <<S2, D0>>, <<D325>>}

\* the top-level fields of the built frames
EventFields ==
    {Field(10, 2, enc_fields(dm)) : dm \in EventDMs}
    \cup {Field(12, 2, <<>>), Field(13, 2, <<>>), Field(14, 2, <<72, 105>>),
          Field(6, 2, <<8, 1>>), Field(7, 2, <<1>>), Field(9, 2, <<>>),
          VarintField(1, 1), Field(3, 5, <<1, 0, 0, 0>>),
          Field(4, 1, <<1, 2, 3, 4, 5, 6, 7, 8>>), Field(1, 3, <<>>)}

\* how an input was made: drawn byte by byte, or built from fields and cut
\* by the link after `cut` bytes
RawOrigins == {[kind |-> "raw", fields |-> <<>>, cut |-> Len(s), bytes |-> s] : s \in RawFrames}

\* the frame e built from fields fs, cut after k bytes
CutFrame(fs, e, k) ==
    [kind |-> "built", fields |-> fs, cut |-> k, bytes |-> SubSeq(e, 1, k)]

WholeOf(fs, e) == CutFrame(fs, e, Len(e))

---------------------------------------------------------------------------
(* The state before anything runs *)

BleIdle ==
    /\ start_time = None
    /\ count = 0 /\ dist_zero_no_field = 0 /\ dist_zero_explicit = 0
    /\ dist_ok = 0 /\ truncated = 0
    /\ sid1_zero = 0 /\ sid1_ok = 0 /\ sid2_zero = 0 /\ sid2_ok = 0
    /\ data = <<>> /\ event = <<NoType, None>>

EspIdle ==
    /\ chunk = <<>> /\ buf = <<>>
    /\ esp_count = 0 /\ esp_dist_zero = 0 /\ esp_dist_ok = 0
    /\ budget = 0
    /\ stream = <<>> /\ frames = <<>> /\ events = <<>> /\ cobs_errors = 0

FnIdle ==
    /\ pc = "idle" /\ origin = None /\ inp = <<>> /\ out = None

---------------------------------------------------------------------------
(* SpecParse: one call of parse_event, of both files, on one frame *)

InitParse ==
    /\ BleIdle /\ EspIdle
    /\ pc = "call"
    /\ \/ origin \in RawOrigins
       \/ \E fs \in SeqsUpTo(EventFields, MaxFields) :
            \E k \in 0..Len(enc_fields(fs)) :
              origin = CutFrame(fs, enc_fields(fs), k)
    /\ inp = origin.bytes
    /\ out = None

CallParseEvent ==
    /\ pc = "call"
    /\ pc' = "done"
    /\ out' = [ble |-> parse_event(inp), esp |-> esp_parse_event(inp),
               ble_pos |-> pe_run(inp).pos, esp_pos |-> esp_pe_run(inp).pos]
    /\ UNCHANGED <<origin, inp, bleVars, espVars>>

NextParse == CallParseEvent

SpecParse == InitParse /\ [][NextParse]_vars

---------------------------------------------------------------------------
(* SpecDM: one call of parse_distance_measurement, of both files, on one
   well-formed submessage *)

InitDM ==
    /\ BleIdle /\ EspIdle
    /\ pc = "call"
    /\ \E fs \in SeqsUpTo(DMFields, MaxDMFields) :
         origin = WholeOf(fs, enc_fields(fs))
    /\ inp = origin.bytes
    /\ out = None

CallParseDM ==
    /\ pc = "call"
    /\ pc' = "done"
    /\ out' = [ble |-> parse_distance_measurement(inp),
               esp |-> esp_parse_distance_measurement(inp),
               ble_pos |-> dm_run(inp).pos, esp_pos |-> esp_dm_run(inp).pos]
    /\ UNCHANGED <<origin, inp, bleVars, espVars>>

NextDM == CallParseDM

SpecDM == InitDM /\ [][NextDM]_vars

---------------------------------------------------------------------------
(* Spec: the radio reader: notifications as they come, and the statistics
   report of main() *)

\* the submessages of the distance notifications
NotifyDMs == EventDMs \cup {<<S1, D0>>, <<S2, D325>>, <<S1, DNeg0>>, <<S300, D325>>}

DistanceFrame(dm) == enc_field(Field(10, 2, enc_fields(dm)))

\* what a notification can hold: a frame of one field, whole or cut by the
\* link, or a distance frame with a second field after it
NotifyFrames ==
    Prefixes({enc_field(f) : f \in EventFields} \cup {DistanceFrame(dm) : dm \in NotifyDMs})
    \cup {DistanceFrame(<<S1, D325>>) \o enc_field(Field(12, 2, <<>>))}

Init == BleIdle /\ EspIdle /\ FnIdle

\* a slip: the second source counted only when its id is 2
handle_notification_sid2_exact(d) ==
    LET ev   == parse_event(d)
        dist == ev[1] = Named("distance")
        cls  == IF dist THEN classify(ev[2]) ELSE "none"
        zero == cls \in {"zero_no_field", "zero_explicit"}
        one  == dist /\ ev[2].source_id = 1
        two  == dist /\ ev[2].source_id = 2
    IN  /\ count < MaxNotifications
        /\ start_time' = (IF start_time = None THEN Time ELSE start_time)
        /\ count' = count + 1
        /\ data' = d
        /\ event' = ev
        /\ truncated' = Bump(truncated, ev[1] = Named("TRUNCATED"))
        /\ dist_zero_no_field' = Bump(dist_zero_no_field, cls = "zero_no_field")
        /\ dist_zero_explicit' = Bump(dist_zero_explicit, cls = "zero_explicit")
        /\ dist_ok' = Bump(dist_ok, cls = "ok")
        /\ sid1_zero' = Bump(sid1_zero, zero /\ one)
        /\ sid2_zero' = Bump(sid2_zero, zero /\ two)
        /\ sid1_ok' = Bump(sid1_ok, cls = "ok" /\ one)
        /\ sid2_ok' = Bump(sid2_ok, cls = "ok" /\ two)
        /\ UNCHANGED <<espVars, fnVars>>

\* lines 111-154: the counters, the notification and its event
handle_notification(d) ==
    LET ev   == parse_event(d)
        dist == ev[1] = Named("distance")
        cls  == IF dist THEN classify(ev[2]) ELSE "none"
        zero == cls \in {"zero_no_field", "zero_explicit"}
        one  == dist /\ ev[2].source_id = 1
        two  == dist /\ ev[2].source_id /= 1
    IN  /\ count < MaxNotifications
        /\ start_time' = (IF start_time = None THEN Time ELSE start_time)
        /\ count' = count + 1
        /\ data' = d
        /\ event' = ev
        /\ truncated' = Bump(truncated, ev[1] = Named("TRUNCATED"))
        /\ dist_zero_no_field' = Bump(dist_zero_no_field, cls = "zero_no_field")
        /\ dist_zero_explicit' = Bump(dist_zero_explicit, cls = "zero_explicit")
        /\ dist_ok' = Bump(dist_ok, cls = "ok")
        /\ sid1_zero' = Bump(sid1_zero, zero /\ one)
        /\ sid2_zero' = Bump(sid2_zero, zero /\ two)
        /\ sid1_ok' = Bump(sid1_ok, cls = "ok" /\ one)
        /\ sid2_ok' = Bump(sid2_ok, cls = "ok" /\ two)
        /\ UNCHANGED <<espVars, fnVars>>

\* main(), lines 184-192: the periodic report reads the counters
StatsReport ==
    /\ start_time /= None
    /\ UNCHANGED vars

Next ==
    \/ \E d \in NotifyFrames : handle_notification(d)
    \/ StatsReport

Spec == Init /\ [][Next]_vars

---------------------------------------------------------------------------
(* SpecSerial: the serial reader: reads of the port as they come *)

\* bytes of the serial stream: the delimiter, COBS codes 1 and 2, and two
\* tags (82: distance, 98: geolocation) that are also overlong COBS codes
SerialBytes == {0, 1, 2, 82, 98}

\* standard COBS (what the device's PacketSerial sends before the delimiter)
RECURSIVE cobs_encode(_)
cobs_encode(p) ==
    LET stops == {i \in 1..Len(p) : p[i] = 0}
        run   == Min(IF stops = {} THEN Len(p) ELSE MinOf(stops) - 1, CobsMaxCode - 1)
    IN  IF run = CobsMaxCode - 1
        THEN <<CobsMaxCode>> \o SubSeq(p, 1, run)
             \o (IF run = Len(p) THEN <<>> ELSE cobs_encode(SubSeq(p, run + 1, Len(p))))
        ELSE IF run = Len(p)
        THEN <<run + 1>> \o p
        ELSE <<run + 1>> \o SubSeq(p, 1, run) \o cobs_encode(SubSeq(p, run + 2, Len(p)))

\* what the buffer may hold when the run starts: nothing, or an encoded
\* distance frame whose delimiter has not arrived yet
Pending == {<<>>, cobs_encode(DistanceFrame(<<S1, D325>>)), cobs_encode(DistanceFrame(<<S2, D0>>))}

InitSerial ==
    /\ BleIdle /\ FnIdle
    /\ chunk = <<>>
    /\ buf \in Pending
    /\ stream = buf
    /\ budget = MaxStreamLen
    /\ esp_count = 0 /\ esp_dist_zero = 0 /\ esp_dist_ok = 0
    /\ frames = <<>> /\ events = <<>> /\ cobs_errors = 0

\* one pass of `while True` with a non-empty read (lines 128-169)
ReadChunk(c) ==
    LET st == frame_loop([buf |-> buf \o c, count |-> esp_count,
                          dist_zero |-> esp_dist_zero, dist_ok |-> esp_dist_ok,
                          frames |-> frames, events |-> events,
                          cobs_errors |-> cobs_errors])
    IN  /\ c /= <<>>
        /\ Len(c) <= budget
        /\ budget' = budget - Len(c)
        /\ chunk' = c
        /\ stream' = stream \o c
        /\ buf' = st.buf
        /\ esp_count' = st.count
        /\ esp_dist_zero' = st.dist_zero
        /\ esp_dist_ok' = st.dist_ok
        /\ frames' = st.frames
        /\ events' = st.events
        /\ cobs_errors' = st.cobs_errors
        /\ UNCHANGED <<bleVars, fnVars>>

\* one pass with a read that timed out (lines 128-130)
ReadTimeout ==
    /\ chunk' = <<>>
    /\ UNCHANGED <<buf, esp_count, esp_dist_zero, esp_dist_ok, budget, stream,
                   frames, events, cobs_errors, bleVars, fnVars>>

NextSerial ==
    \/ \E c \in SeqsUpTo(SerialBytes, MaxChunkLen) : ReadChunk(c)
    \/ ReadTimeout

SpecSerial == InitSerial /\ [][NextSerial]_vars

---------------------------------------------------------------------------
(* SpecCobs: one call of cobs_decode, on the encoding of a payload *)

PayloadBytes == {0, 1, 2, 82}

InitCobs ==
    /\ BleIdle /\ EspIdle
    /\ pc = "call"
    /\ origin \in {[kind |-> "payload", fields |-> <<>>, cut |-> 0, bytes |-> p]
                   : p \in SeqsUpTo(PayloadBytes, MaxPayloadLen)}
    /\ inp = cobs_encode(origin.bytes)
    /\ out = None

CallCobsDecode ==
    /\ pc = "call"
    /\ pc' = "done"
    /\ out' = cobs_decode(inp)
    /\ UNCHANGED <<origin, inp, bleVars, espVars>>

NextCobs == CallCobsDecode

SpecCobs == InitCobs /\ [][NextCobs]_vars

---------------------------------------------------------------------------
(* What the frames are, read off the way they were built *)

Supported(f) == f.wt \in {0, 1, 2, 5}

\* the fields before the first tag of an unsupported wire type
Processed(fs) ==
    LET bad == {i \in 1..Len(fs) : ~Supported(fs[i])}
    IN  IF bad = {} THEN fs ELSE SubSeq(fs, 1, MinOf(bad) - 1)

\* the offset of field i in the encoding of fs
FieldStart(fs, i) == Len(enc_fields(SubSeq(fs, 1, i - 1)))

Recognised(f) == f.wt = 2 /\ f.num \in {10, 12, 13, 14}

TypeOfField(n) ==
    CASE n = 10 -> Named("distance")
      [] n = 12 -> Named("geolocation")
      [] n = 13 -> Named("userInput")
      [] n = 14 -> Named("textMessage")

\* the part of the details both files produce
CoreDetails(dt) ==
    IF dt.kind = "distance"
    THEN [kind |-> "distance", source_id |-> dt.source_id,
          distance |-> dt.distance, has_distance |-> dt.has_distance,
          raw_hex |-> dt.raw_hex]
    ELSE dt

\* the details a field 10 or 14 with payload b stands for
DetailsOfField(f) ==
    IF f.num = 10
    THEN LET r == parse_distance_measurement(f.val)
         IN  [kind |-> "distance", source_id |-> r[1], distance |-> r[2],
              has_distance |-> r[3], raw_hex |-> hex(f.val)]
    ELSE [kind |-> "text", raw |-> f.val]

WholeFrame == origin.kind = "built" /\ origin.cut = Len(enc_fields(origin.fields))

---------------------------------------------------------------------------
(* C1 *)

\* field i of the built frame is length-delimited, every field before it is
\* complete and of a supported wire type, its tag and length are in the
\* frame, and the link cut the frame inside its payload
TruncatedAt(i) ==
    LET fs == origin.fields
        h  == FieldStart(fs, i) + Len(enc_head(fs[i]))
    IN  /\ fs[i].wt = 2
        /\ \A j \in 1..(i - 1) : Supported(fs[j])
        /\ h <= origin.cut
        /\ origin.cut < h + Len(fs[i].val)

TruncatedEvent(field, expected, available) ==
    <<Named("TRUNCATED"),
      [kind |-> "truncated", field |-> field, expected |-> expected,
       available |-> available, raw_hex |-> hex(inp)]>>

\* C1: radio-channel parse_event, on a frame whose first overrunning
\* length-delimited field is field i, returns TRUNCATED with that field's
\* number, its declared length and the bytes left after the length varint,
\* whatever the earlier fields were; the same for a raw frame that starts
\* with a one-byte length-delimited tag and a one-byte length larger than the
\* rest of the frame
C1_TruncatedReported ==
    pc = "done" =>
      /\ origin.kind = "built" =>
           \A i \in 1..Len(origin.fields) :
             TruncatedAt(i) =>
               out.ble = TruncatedEvent(
                           origin.fields[i].num,
                           Len(origin.fields[i].val),
                           origin.cut - FieldStart(origin.fields, i)
                                      - Len(enc_head(origin.fields[i])))
      /\ ( /\ origin.kind = "raw" /\ Len(inp) >= 2
           /\ inp[1] % 8 = 2 /\ inp[1] < 128
           /\ inp[2] < 128 /\ inp[2] > Len(inp) - 2 )
         => out.ble = TruncatedEvent(inp[1] \div 8, inp[2], Len(inp) - 2)

\* a frame with a complete geolocation field and then a distance field of
\* declared length 7 of which 5 bytes arrived
C1_Witness ==
    /\ pc = "done" /\ origin.kind = "built" /\ Len(origin.fields) = 2
    /\ origin.fields[1].num = 12
    /\ origin.fields[2].num = 10
    /\ TruncatedAt(2)
    /\ out.ble[2].kind = "truncated"
    /\ out.ble[2].expected = 7 /\ out.ble[2].available = 5

---------------------------------------------------------------------------
(* C2 *)

RecognisedAt == {i \in 1..Len(Processed(origin.fields)) : Recognised(origin.fields[i])}
DetailedAt   == {i \in RecognisedAt : origin.fields[i].num \in {10, 14}}

---------------------------------------------------------------------------
(* C4 *)

\* C4 as stated: on every frame the two parse_event return the same event
\* type and, for a distance event, the same source_id, distance and
\* has_distance
C4_SameEngine ==
    pc = "done" =>
      /\ out.ble[1] = out.esp[1]
      /\ out.ble[1] = Named("distance") => CoreDetails(out.ble[2]) = CoreDetails(out.esp[2])

---------------------------------------------------------------------------
(* C10 *)

EventTypeKinds == {"None", "TRUNCATED", "distance", "geolocation", "userInput",
                   "textMessage", "field"}
DetailsKinds   == {"None", "truncated", "distance", "text"}

\* no length-delimited top-level field can be processed: a raw frame with no
\* byte whose low three bits are 2, a built frame with no such field
NoLengthDelimited ==
    IF origin.kind = "raw"
    THEN \A i \in 1..Len(inp) : inp[i] % 8 /= 2
    ELSE \A i \in 1..Len(origin.fields) : origin.fields[i].wt /= 2

\* C10: the call returns one (event_type, details) pair, and for an empty
\* frame or a frame with no length-delimited top-level field that pair is
\* (None, None)
C10_OneEvent ==
    pc = "done" =>
      /\ Len(out.ble) = 2
      /\ out.ble[1].kind \in EventTypeKinds
      /\ out.ble[2].kind \in DetailsKinds
      /\ NoLengthDelimited => out.ble = <<NoType, None>>

\* a frame of two complete fields, none length-delimited
C10_Witness ==
    /\ pc = "done" /\ WholeFrame /\ Len(origin.fields) = 2
    /\ NoLengthDelimited
    /\ out.ble = <<NoType, None>>

---------------------------------------------------------------------------
(* C5 *)

DistanceAt == {i \in 1..Len(origin.fields) :
                 origin.fields[i].num = 2 /\ origin.fields[i].wt = 5}
SourceAt   == {i \in 1..Len(origin.fields) :
                 origin.fields[i].num = 1 /\ origin.fields[i].wt = 0}

DMExpected(r) ==
    /\ r[3] = (DistanceAt /= {})
    /\ r[1] = (IF SourceAt = {} THEN 0 ELSE origin.fields[MaxOf(SourceAt)].int)
    /\ (~r[3]) => r[2] = FloatZero

\* C5: on a submessage of complete fields of wire types 0, 1, 2 and 5, both
\* parse_distance_measurement return has_distance exactly when a field 2 of
\* wire type Fixed32 is present, the value of the last varint field 1 as
\* source_id (0 without one), and distance 0.0 when has_distance is false
C5_DistanceMeasurement ==
    pc = "done" => (DMExpected(out.ble) /\ DMExpected(out.esp))

\* two source ids and no distance: the second id, no distance
C5_Witness ==
    /\ pc = "done" /\ origin.fields = <<S1, S2>>
    /\ out.ble = <<2, FloatZero, FALSE>>

---------------------------------------------------------------------------
(* C3 *)

\* C3 as stated: cobs_decode of the standard COBS encoding of a payload is
\* the payload
C3_RoundTrip ==
    pc = "done" => out = Bytes(origin.bytes)

---------------------------------------------------------------------------
(* C6 *)

\* the increments of (dist_zero_no_field, dist_zero_explicit, dist_ok)
\* (an action-level expression: it reads both states of a step)
C6_Increments ==
    <<dist_zero_no_field' - dist_zero_no_field,
      dist_zero_explicit' - dist_zero_explicit,
      dist_ok' - dist_ok>>

HasDistanceField(dm) == \E i \in 1..Len(dm) : dm[i].num = 2 /\ dm[i].wt = 5
HasExplicitZero(dm) == \E i \in 1..Len(dm) : dm[i] = D0

\* C6: a notification decoded as a distance event adds one to exactly one of
\* the three counters: zero-no-field when the distance is zero and the field
\* was absent, zero-explicit when it is zero and the field was present, ok
\* otherwise; a notification whose submessage holds no field 2 counts as
\* zero-no-field, one with a Fixed32 zero as zero-explicit
C6_OneCounter ==
    [][ /\ (count' = count + 1 /\ event'[1] = Named("distance")) =>
            C6_Increments =
              (IF event'[2].distance.mag = 0 /\ ~event'[2].has_distance THEN <<1, 0, 0>>
               ELSE IF event'[2].distance.mag = 0 THEN <<0, 1, 0>>
               ELSE <<0, 0, 1>>)
        /\ \A dm \in NotifyDMs :
             (count' = count + 1 /\ data' = DistanceFrame(dm)) =>
               /\ ~HasDistanceField(dm) => C6_Increments = <<1, 0, 0>>
               /\ HasExplicitZero(dm) => C6_Increments = <<0, 1, 0>>
      ]_vars

\* a submessage with only field 1, then one with an explicit zero
C6_Witness ==
    /\ count = 2
    /\ dist_zero_no_field = 1 /\ dist_zero_explicit = 1 /\ dist_ok = 0
    /\ data = DistanceFrame(<<S2, D0>>)

---------------------------------------------------------------------------
(* C7 *)

Zeros == {i \in 1..Len(stream) : stream[i] = 0}

\* the position of the k-th zero byte of the stream, 0 for k = 0
ZeroPos(k) ==
    IF k = 0 THEN 0
    ELSE CHOOSE i \in Zeros : Cardinality({j \in Zeros : j <= i}) = k

\* C7: whatever the reads were, the frames extracted so far are the spans
\* between the zero bytes of the whole stream, in order and once each, and the
\* buffer holds the bytes after the last zero byte
C7_FramesAreSpans ==
    /\ Len(frames) = Cardinality(Zeros)
    /\ \A k \in 1..Len(frames) :
         frames[k] = SubSeq(stream, ZeroPos(k - 1) + 1, ZeroPos(k) - 1)
    /\ buf = SubSeq(stream, ZeroPos(Cardinality(Zeros)) + 1, Len(stream))

\* the buffer was empty at the start, two frames were extracted, and the
\* second one began before the last read
C7_Witness ==
    /\ Len(stream) + budget = MaxStreamLen
    /\ Len(frames) = 2 /\ frames[2] /= <<>>
    /\ chunk /= <<>>
    /\ Len(chunk) < Len(frames[2]) + 1 + Len(buf)

---------------------------------------------------------------------------
(* C8 *)

\* C8: an empty frame is neither decoded nor counted: the events and the
\* decode errors together are as many as the non-empty frames, and every
\* counted frame has its event
C8_EmptyFrameDiscarded ==
    /\ esp_count + cobs_errors = Cardinality({k \in 1..Len(frames) : frames[k] /= <<>>})
    /\ Len(events) = esp_count

\* two consecutive empty frames after a decoded one
C8_Witness ==
    /\ esp_count = 1
    /\ \E k \in 1..(Len(frames) - 1) : frames[k] = <<>> /\ frames[k + 1] = <<>>

---------------------------------------------------------------------------
(* C9 *)

\* a code byte of the frame announces more literal bytes than are left;
\* i is the position of a code byte
RECURSIVE Overruns(_, _)
Overruns(f, i) ==
    IF i >= Len(f) \/ f[i + 1] = 0 THEN FALSE
    ELSE IF i + f[i + 1] > Len(f) THEN TRUE
    ELSE Overruns(f, i + f[i + 1])

Malformed == {k \in 1..Len(frames) : frames[k] /= <<>> /\ Overruns(frames[k], 0)}
Decodable == {k \in 1..Len(frames) : frames[k] /= <<>> /\ ~Overruns(frames[k], 0)}

\* the j-th decodable frame
DecodableAt(j) == CHOOSE k \in Decodable : Cardinality({m \in Decodable : m <= k}) = j

\* C9: cobs_decode returns None exactly on the frames in which a code byte
\* overruns the frame; such a frame adds a decode error and nothing else, and
\* every other non-empty frame delimited so far, before or after it, has been
\* decoded and counted, in order
C9_MalformedIsolated ==
    /\ Len(frames) = Cardinality({i \in 1..Len(stream) : stream[i] = 0})
    /\ \A k \in 1..Len(frames) :
         (cobs_decode(frames[k]) = None) <=> (k \in Malformed)
    /\ cobs_errors = Cardinality(Malformed)
    /\ esp_count = Cardinality(Decodable)
    /\ Len(events) = Cardinality(Decodable)
    /\ \A j \in 1..Len(events) :
         events[j] = esp_parse_event(cobs_decode(frames[DecodableAt(j)]).val)
    /\ esp_dist_zero + esp_dist_ok =
         Cardinality({j \in 1..Len(events) : events[j][1] = Named("distance")})

\* one read delivers the delimiter of a malformed frame and a whole frame
\* after it, which is decoded
C9_Witness ==
    /\ Len(chunk) = 3 /\ chunk[1] = 0 /\ chunk[3] = 0
    /\ Len(frames) = 2
    /\ Malformed = {1} /\ Decodable = {2}
    /\ cobs_errors = 1 /\ esp_count = 1

---------------------------------------------------------------------------
(* SpecVarint: one call of decode_varint, of both files, at position 0 *)

\* integers whose encodings take two, three, four and five bytes
VarintSamples == {16383, 16384, 2097151, 2097152, 268435455, 268435456, 2147483647}

\* what may follow the encoding in the buffer
VarintTails == {<<>>, <<0>>, <<1>>, <<128, 1>>, <<255>>}

\* k bytes c with the continuation bit set
Run(c, k) == [i \in 1..k |-> c]

InitVarint ==
    /\ BleIdle /\ EspIdle
    /\ pc = "call"
    /\ \/ \E v \in (0..MaxValue) \cup VarintSamples : \E t \in VarintTails :
            /\ origin = [kind |-> "value", value |-> v, tail |-> t]
            /\ inp = enc_varint(v) \o t
       \/ \E k \in 0..MaxRun : \E c \in {128, 255} : \E t \in {<<>>, <<1>>, <<127>>} :
            /\ origin = [kind |-> "run", value |-> k, tail |-> t]
            /\ inp = Run(c, k) \o t
    /\ out = None

\* the call on a buffer that starts with the encoding of an integer
CallDecodeVarint ==
    /\ pc = "call" /\ origin.kind = "value"
    /\ pc' = "done"
    /\ out' = [ble |-> decode_varint(inp, 0), esp |-> esp_decode_varint(inp, 0)]
    /\ UNCHANGED <<origin, inp, bleVars, espVars>>

\* the call on a run of continuation bytes: the terms of the result, and the
\* position returned
CallDecodeVarintRun ==
    /\ pc = "call" /\ origin.kind = "run"
    /\ pc' = "done"
    /\ out' = [trace |-> varint_trace(inp, 0, 0),
               pos   |-> Len(varint_trace(inp, 0, 0))]
    /\ UNCHANGED <<origin, inp, bleVars, espVars>>

NextVarint == CallDecodeVarint \/ CallDecodeVarintRun

SpecVarint == InitVarint /\ [][NextVarint]_vars

---------------------------------------------------------------------------
(* C11 *)

\* C11: for every integer of the range, and whatever follows its encoding in
\* the buffer, both decode_varint at position 0 return the integer and the
\* length of its encoding
C11_VarintRoundTrip ==
    (pc = "done" /\ origin.kind = "value") =>
      /\ out.ble = <<origin.value, Len(enc_varint(origin.value))>>
      /\ out.esp = <<origin.value, Len(enc_varint(origin.value))>>

\* a two-byte encoding with a byte after it that has the continuation bit
C11_Witness ==
    /\ pc = "done" /\ origin.kind = "value"
    /\ origin.value = 300 /\ origin.tail = <<255>>
    /\ inp = <<172, 2, 255>>
    /\ out.ble = <<300, 2>>

---------------------------------------------------------------------------
(* C16 *)

\* C16 as stated: no group is shifted by more than 63 bits and the result of
\* decode_varint is below 2^64, also on a run of more than ten bytes with the
\* continuation bit set
C16_FitsIn64Bits ==
    (pc = "done" /\ origin.kind = "run") =>
      /\ \A i \in 1..Len(out.trace) : out.trace[i].shift <= 63
      /\ ResultBits(out.trace) <= 64

---------------------------------------------------------------------------
(* SpecFields: one call of parse_event or of parse_distance_measurement, of
   both files, on a message built field by field, whole or cut by the link *)

\* a distance whose four bytes begin like a source_id field (08 02)
DSid == Field(2, 5, <<8, 2, 0, 0>>)

\* the fields of the submessages: those of DMFields, DSid, and a tag of an
\* unsupported wire type
SubFields == DMFields \cup {DSid, Field(3, 4, <<>>)}

\* the submessage e built from fields fs, cut after k bytes
CutSub(fs, e, k) ==
    [kind |-> "sub", fields |-> fs, cut |-> k, bytes |-> SubSeq(e, 1, k)]

InitFields ==
    /\ BleIdle /\ EspIdle
    /\ pc = "call"
    /\ \/ \E fs \in SeqsUpTo(EventFields, MaxFields) :
            \E k \in 0..Len(enc_fields(fs)) :
              origin = CutFrame(fs, enc_fields(fs), k)
       \/ \E fs \in SeqsUpTo(SubFields, MaxDMFields) :
            \E k \in 0..Len(enc_fields(fs)) :
              origin = CutSub(fs, enc_fields(fs), k)
    /\ inp = origin.bytes
    /\ out = None

NextFields == CallParseEvent \/ CallParseDM

SpecFields == InitFields /\ [][NextFields]_vars

\* which function the result in `out` is of
IsEventResult == pc = "done" /\ Len(out.ble) = 2
IsDMResult    == pc = "done" /\ Len(out.ble) = 3

\* the encoding of the fields before field i
Before(i) == enc_fields(SubSeq(origin.fields, 1, i - 1))

\* the offset just after the tag (and the length, if any) of field i
AfterHead(i) == FieldStart(origin.fields, i) + Len(enc_head(origin.fields[i]))

---------------------------------------------------------------------------
(* C12 *)

\* C12 as stated: when parse_event or parse_distance_measurement returns,
\* the read position is not past the end of the buffer
C12_PosWithinBuffer ==
    pc = "done" => (out.ble_pos <= Len(inp) /\ out.esp_pos <= Len(inp))

---------------------------------------------------------------------------
(* C13 *)

\* field i is a Fixed32 field 2 of which the tag and fewer than four payload
\* bytes are in the buffer, after complete fields of supported wire types
UnderrunAt(i) ==
    /\ origin.fields[i].num = 2 /\ origin.fields[i].wt = 5
    /\ \A j \in 1..(i - 1) : Supported(origin.fields[j])
    /\ AfterHead(i) <= origin.cut
    /\ origin.cut < AfterHead(i) + 4

\* C13 as stated: parse_distance_measurement, on a submessage that ends
\* inside the payload of a Fixed32 field 2, returns the source_id, distance
\* and has_distance of the fields before that tag
C13_UnderrunSkipsField ==
    (IsDMResult /\ origin.kind = "sub") =>
      \A i \in 1..Len(origin.fields) :
        UnderrunAt(i) =>
          /\ out.ble = parse_distance_measurement(Before(i))
          /\ out.esp = esp_parse_distance_measurement(Before(i))

---------------------------------------------------------------------------
(* C15 *)

\* field i is the first tag of an unsupported wire type, and it is in the
\* buffer, after complete fields
StopsAt(i) ==
    /\ ~Supported(origin.fields[i])
    /\ \A j \in 1..(i - 1) : Supported(origin.fields[j])
    /\ AfterHead(i) <= origin.cut

\* C15: when the first tag of an unsupported wire type is field i, both
\* parse_event and both parse_distance_measurement return what they return on
\* the fields before field i alone, whatever follows the tag, and the read
\* position is left just after the tag
C15_UnsupportedStops ==
    pc = "done" =>
      \A i \in 1..Len(origin.fields) :
        StopsAt(i) =>
          /\ out.ble_pos = AfterHead(i) /\ out.esp_pos = AfterHead(i)
          /\ IsEventResult =>
               /\ out.ble = parse_event(Before(i))
               /\ out.esp = esp_parse_event(Before(i))
               /\ out.ble[1].kind /= "TRUNCATED"
          /\ IsDMResult =>
               /\ out.ble = parse_distance_measurement(Before(i))
               /\ out.esp = esp_parse_distance_measurement(Before(i))

\* a frame whose first field has wire type 3 and whose second is a whole
\* geolocation field: nothing is reported
C15_Witness ==
    /\ IsEventResult /\ origin.kind = "built" /\ Len(origin.fields) = 2
    /\ StopsAt(1)
    /\ origin.fields[2].num = 12 /\ origin.cut = Len(enc_fields(origin.fields))
    /\ out.ble = <<NoType, None>>

---------------------------------------------------------------------------
(* C14 *)

\* a length-delimited field that is neither recognised nor the time field
Unknown(f) == f.wt = 2 /\ f.num \notin {6, 10, 12, 13, 14}

UnknownAt == {i \in 1..Len(Processed(origin.fields)) : Unknown(origin.fields[i])}

\* not an unknown field and not a time field
Opaque(f) == ~(f.wt = 2 /\ f.num \notin {10, 12, 13, 14})

\* C14: in a frame of complete fields, when a recognised field is processed
\* both parse_event return what they return on the frame without its unknown
\* and time fields; without a recognised field they return the label of the
\* first unknown field processed, and no event type when there is none (time
\* fields or not); the details are None in both cases
C14_UnknownIsFallback ==
    (pc = "done" /\ WholeFrame) =>
      LET kept == enc_fields(SelectSeq(Processed(origin.fields), Opaque))
          exp  == IF RecognisedAt /= {} THEN parse_event(kept)
                  ELSE IF UnknownAt /= {}
                  THEN <<FieldType(origin.fields[MinOf(UnknownAt)].num), None>>
                  ELSE <<NoType, None>>
          esp_exp == IF RecognisedAt /= {} THEN esp_parse_event(kept) ELSE exp
      IN  /\ out.ble = exp
          /\ out.esp = esp_exp
          /\ RecognisedAt /= {} =>
               out.ble[1] = TypeOfField(origin.fields[MaxOf(RecognisedAt)].num)

\* a distance field and then an unknown field: a distance event
C14_Witness ==
    /\ pc = "done" /\ WholeFrame /\ Len(origin.fields) = 2
    /\ origin.fields[1].num = 10 /\ Unknown(origin.fields[2])
    /\ out.ble[1] = Named("distance")
    /\ out.ble[2].kind = "distance"

---------------------------------------------------------------------------
(* C20 *)

\* the field-10 submessages processed in a built frame
DistanceFieldAt ==
    {i \in 1..Len(Processed(origin.fields)) :
       origin.fields[i].wt = 2 /\ origin.fields[i].num = 10}

\* the result ev is a distance event with a distance record, and in a frame
\* of complete fields that record is the one of the last field 10
DistanceRecord(ev) ==
    ev[1] = Named("distance") =>
      /\ ev[2].kind = "distance"
      /\ ev[2].source_id \in Nat
      /\ ev[2].has_distance \in BOOLEAN
      /\ WholeFrame =>
           /\ DistanceFieldAt /= {}
           /\ CoreDetails(ev[2]) = DetailsOfField(origin.fields[MaxOf(DistanceFieldAt)])

\* C20: on every frame, when either parse_event returns the event type
\* distance the details are a distance record, never None and never the
\* payload of a text message, and in a frame of complete fields they are
\* decoded from the last field 10
C20_DistanceHasRecord ==
    pc = "done" => (DistanceRecord(out.ble) /\ DistanceRecord(out.esp))

\* two distance fields: the record is that of the second
C20_Witness ==
    /\ pc = "done" /\ WholeFrame /\ Len(origin.fields) = 2
    /\ origin.fields[1].val = enc_fields(<<S1, D325>>)
    /\ origin.fields[2].val = enc_fields(<<S2, D0>>)
    /\ DistanceFieldAt = {1, 2}
    /\ out.ble[1] = Named("distance")
    /\ out.ble[2].source_id = 2 /\ IsZero(out.ble[2].distance)

---------------------------------------------------------------------------
(* C18 *)

\* the counters in one tuple
Counters == <<count, dist_zero_no_field, dist_zero_explicit, dist_ok, truncated,
              sid1_zero, sid1_ok, sid2_zero, sid2_ok>>

\* C18: in every state the per-source counters add up to the classification
\* counters and the classified notifications are at most count; every step
\* that changes anything is one notification and adds exactly one to count,
\* and no counter goes down (the statistics report changes nothing, so it is
\* no such step)
C18_CountersConsistent ==
    /\ [](/\ sid1_ok + sid2_ok = dist_ok
          /\ sid1_zero + sid2_zero = dist_zero_no_field + dist_zero_explicit
          /\ truncated + dist_ok + dist_zero_no_field + dist_zero_explicit <= count
          /\ (count = 0) = (start_time = None))
    /\ [][ /\ count' = count + 1
           /\ \A i \in 1..Len(Counters) : Counters'[i] >= Counters[i]
         ]_vars

\* a truncated notification, then a valid distance from a source whose id
\* is neither 1 nor 2
C18_Witness ==
    /\ count = 2 /\ truncated = 1 /\ dist_ok = 1
    /\ sid2_ok = 1 /\ sid1_ok = 0
    /\ event[1] = Named("distance") /\ event[2].source_id = 300

---------------------------------------------------------------------------
(* C19 *)

NoZero(s) == \A i \in 1..Len(s) : s[i] /= 0

\* C19: after each read has been processed, no extracted frame and no byte
\* left in the buffer is a zero byte, the calls of cobs_decode (each ends in
\* an event or in a decode error) are as many as the non-empty frames, and
\* cobs_decode left its loop by the `code == 0` break on none of them
C19_FramesHaveNoZero ==
    /\ \A k \in 1..Len(frames) : NoZero(frames[k])
    /\ NoZero(buf)
    /\ esp_count + cobs_errors = Cardinality({k \in 1..Len(frames) : frames[k] /= <<>>})
    /\ \A k \in 1..Len(frames) : frames[k] /= <<>> => ~cobs_run(frames[k]).brk

\* a read with a zero byte in its middle: a frame was decoded and bytes of
\* the next one wait in the buffer
C19_Witness ==
    /\ \E i \in 1..(Len(chunk) - 1) : chunk[i] = 0
    /\ Len(frames) >= 1 /\ frames[Len(frames)] /= <<>>
    /\ esp_count >= 1
    /\ buf /= <<>>

---------------------------------------------------------------------------
(* SpecLoops: the decode loops, one pass at a time: the field loops of
   parse_event and parse_distance_measurement of both files, the loop of
   cobs_decode, and the extraction loop of the serial reader on the buffer
   after one read.  `out` holds the locals of the loop and the passes made. *)

\* bytes of the messages: tags of every wire type (2: field 0, length-
\* delimited; 8, 9, 11, 13: field 1 as varint, fixed64, wire type 3, fixed32;
\* 21: field 2, fixed32; 82: field 10), small values, a continuation byte
LoopBytes == {0, 2, 8, 9, 11, 13, 21, 82, 128}

\* the frames the serial reader hands to cobs_decode: not empty, no zero byte
CobsFrames == SeqsUpTo(SerialBytes \ {0}, MaxPayloadLen) \ {<<>>}

\* the locals of main() before the first read
serial_init(b) == [buf |-> b, count |-> 0, dist_zero |-> 0, dist_ok |-> 0,
                   frames |-> <<>>, events |-> <<>>, cobs_errors |-> 0]

\* the call: the loop `kind` is entered with the locals st
Enter(kind, st) ==
    /\ pc' = kind
    /\ origin' = [kind |-> kind]
    /\ out' = [st |-> st, n |-> 0]

InitLoops == BleIdle /\ EspIdle /\ FnIdle

\* a function is called on some input, and its locals are set
EnterLoop ==
    /\ pc = "idle"
    /\ \/ /\ inp' \in SeqsUpTo(LoopBytes, MaxRawLen)
          /\ \/ Enter("parse_event", pe_init)
             \/ Enter("esp_parse_event", pe_init)
             \/ Enter("parse_distance_measurement", dm_init)
             \/ Enter("esp_parse_distance_measurement", dm_init)
       \/ /\ inp' \in CobsFrames
          /\ Enter("cobs_decode", cobs_init)
       \/ /\ inp' \in SeqsUpTo(SerialBytes, MaxStreamLen)
          /\ Enter("main", serial_init(inp'))
    /\ UNCHANGED <<bleVars, espVars>>

\* the conditions of the six while loops, on the locals st
pe_goes_on(st)     == st.pos < Len(inp) /\ ~st.brk /\ ~st.returned
dm_goes_on(st)     == st.pos < Len(inp) /\ ~st.brk
esp_pe_goes_on(st) == st.pos < Len(inp) /\ ~st.brk
cobs_goes_on(st)   == st.i < Len(inp) /\ ~st.brk /\ ~st.none
main_goes_on(st)   == \E i \in 1..Len(st.buf) : st.buf[i] = 0

GoesOn ==
    CASE pc = "parse_event" -> pe_goes_on(out.st)
      [] pc = "esp_parse_event" -> esp_pe_goes_on(out.st)
      [] pc = "parse_distance_measurement" -> dm_goes_on(out.st)
      [] pc = "esp_parse_distance_measurement" -> dm_goes_on(out.st)
      [] pc = "cobs_decode" -> cobs_goes_on(out.st)
      [] pc = "main" -> main_goes_on(out.st)
      [] OTHER -> FALSE

\* one pass of the loop `kind`, which takes the locals to `next`
Pass(kind, next) ==
    /\ pc = kind /\ GoesOn
    /\ out' = [st |-> next, n |-> out.n + 1]
    /\ UNCHANGED <<pc, origin, inp, bleVars, espVars>>

PeLoopPass    == Pass("parse_event", pe_step(inp, out.st))
EspPeLoopPass == Pass("esp_parse_event", esp_pe_step(inp, out.st))
DmLoopPass    == Pass("parse_distance_measurement", dm_step(inp, out.st))
EspDmLoopPass == Pass("esp_parse_distance_measurement", esp_dm_step(inp, out.st))
CobsLoopPass  == Pass("cobs_decode", cobs_step(inp, out.st))
FrameLoopPass == Pass("main", frame_step(out.st))

\* the loop condition is false, or the loop was left by break or return
LoopExit ==
    /\ pc \notin {"idle", "done"} /\ ~GoesOn
    /\ pc' = "done"
    /\ UNCHANGED <<origin, inp, out, bleVars, espVars>>

NextLoops ==
    \/ EnterLoop
    \/ PeLoopPass \/ EspPeLoopPass \/ DmLoopPass \/ EspDmLoopPass
    \/ CobsLoopPass \/ FrameLoopPass
    \/ LoopExit

SpecLoops == InitLoops /\ [][NextLoops]_vars

---------------------------------------------------------------------------
(* C17 *)

\* what each loop advances: the read position, the index, the buffer length
\* left (an action-level expression: it reads both states of a step)
C17_Progress ==
    (pc /= "idle" /\ pc' = pc) =>
      CASE pc \in {"parse_event", "esp_parse_event", "parse_distance_measurement",
                   "esp_parse_distance_measurement"} -> out'.st.pos > out.st.pos
        [] pc = "cobs_decode" -> out'.st.i > out.st.i
        [] pc = "main" -> Len(out'.st.buf) < Len(out.st.buf)
        [] OTHER -> FALSE

\* the locals a loop ends with are those of the function run in one go
C17_SameResult ==
    pc = "done" =>
      out.st = CASE origin.kind = "parse_event" -> pe_run(inp)
                 [] origin.kind = "esp_parse_event" -> esp_pe_run(inp)
                 [] origin.kind = "parse_distance_measurement" -> dm_run(inp)
                 [] origin.kind = "esp_parse_distance_measurement" -> esp_dm_run(inp)
                 [] origin.kind = "cobs_decode" -> cobs_run(inp)
                 [] origin.kind = "main" -> frame_loop(serial_init(inp))

\* a loop that is not left can make its next pass
C17_NeverStuck ==
    (pc \notin {"idle", "done"} /\ GoesOn) =>
      CASE pc = "parse_event" -> pe_step(inp, out.st) /= out.st
        [] pc = "esp_parse_event" -> esp_pe_step(inp, out.st) /= out.st
        [] pc = "parse_distance_measurement" -> dm_step(inp, out.st) /= out.st
        [] pc = "esp_parse_distance_measurement" -> esp_dm_step(inp, out.st) /= out.st
        [] pc = "cobs_decode" -> cobs_step(inp, out.st) /= out.st
        [] pc = "main" -> frame_step(out.st) /= out.st

===========================================================================
